---- MODULE Spec2Model ----
(***************************************************************************)
(* Model of package autocompletion (type Scope: the builder operations,    *)
(* trimToScope, addIntermediatePath, RecommendationType,                   *)
(* RecommendationQuery, Reset) and of eval.getRecommendations' candidate   *)
(* selection.  Go strings are TLA+ strings, a slice is a sequence, the     *)
(* map[string]bool b.scope is the set of its keys.                         *)
(***************************************************************************)
EXTENDS Integers, Sequences, FiniteSets, TLC

VARIABLES
    b,          \* the Scope under use (*Scope)
    last,       \* the name of the last method called on b
    f,          \* a Scope built by NewScope that receives the same calls as b since b's last Reset
    ret,        \* what the last call on b returned ("" for a method without result)
    fret,       \* what the same call returned from f
    panicked,   \* a run-time panic has ended the program that uses b
    fpanicked,  \* a run-time panic has ended the program that uses f
    script,     \* the builder calls the parser makes for the query under test
    pc,         \* the index in script of the parser's next call
    phase,      \* where the test of a query stands: "parsing", "queried", "typed"
    cycle,      \* 1 in the first parse of the query, 2 after Reset
    first,      \* the text and the type the first cycle returned
    bindings,   \* the rows (POF, count) the endpoint returned for the recommendation query
    counts,     \* getRecommendations' map counts: the summed count of each candidate
    pofs,       \* getRecommendations' slice pofs
    top,        \* getRecommendations' slice top
    values,     \* the VALUES block of the second query
    rpc         \* where getRecommendations stands: "bindings", "counted", "ranged", "done"

bvars == <<b, last, ret, panicked>>

fvars == <<f, fret, fpanicked>>

pvars == <<script, pc, phase, cycle, first>>

kvars == <<bindings, counts, pofs, top, values, rpc>>

vars == <<b, last, ret, panicked, f, fret, fpanicked, script, pc, phase, cycle, first,
          bindings, counts, pofs, top, values, rpc>>

\* ---------------------------------------------------------------- bounds

\* at most this many patterns are put into Tps by addTriplePattern
MaxTps == 1

\* the path lengths handed to setPathLength are "0" .. MaxPathLength
MaxPathLength == 2

\* ---------------------------------------------------------------- strings

Digits == "0123456789"

DigitChar(d) == SubSeq(Digits, d + 1, d + 1)

IsDigit(c) == \E d \in 0..9 : DigitChar(d) = c

DigitVal(c) == CHOOSE d \in 0..9 : DigitChar(d) = c

RECURSIVE ItoaNat(_)
ItoaNat(n) == IF n < 10 THEN DigitChar(n) ELSE ItoaNat(n \div 10) \o DigitChar(n % 10)

\* strconv.Itoa
Itoa(n) == IF n < 0 THEN "-" \o ItoaNat(-n) ELSE ItoaNat(n)

RECURSIVE ParseDigits(_, _, _)
\* the value of the digits s[i..], acc being the value of the digits before i; -1 on a non-digit
ParseDigits(s, i, acc) ==
    IF i > Len(s) THEN acc
    ELSE IF IsDigit(SubSeq(s, i, i)) THEN ParseDigits(s, i + 1, acc * 10 + DigitVal(SubSeq(s, i, i)))
    ELSE -1

\* strconv.Atoi with the error dropped (n, _ := strconv.Atoi(s)): 0 on a syntax error
Atoi(s) ==
    LET signed == Len(s) > 0 /\ SubSeq(s, 1, 1) \in {"+", "-"}
        digits == IF signed THEN SubSeq(s, 2, Len(s)) ELSE s
        n      == IF Len(digits) = 0 THEN -1 ELSE ParseDigits(digits, 1, 0)
    IN  IF n = -1 THEN 0
        ELSE IF signed /\ SubSeq(s, 1, 1) = "-" THEN -n ELSE n

IsSpace(c) == c \in {" ", "\t", "\n", "\r", "\f"}

RECURSIVE TrimLeft(_)
TrimLeft(s) == IF Len(s) > 0 /\ IsSpace(SubSeq(s, 1, 1)) THEN TrimLeft(SubSeq(s, 2, Len(s))) ELSE s

RECURSIVE TrimRight(_)
TrimRight(s) ==
    IF Len(s) > 0 /\ IsSpace(SubSeq(s, Len(s), Len(s))) THEN TrimRight(SubSeq(s, 1, Len(s) - 1)) ELSE s

\* strings.TrimSpace
TrimSpace(s) == TrimRight(TrimLeft(s))

\* s[1:], defined when len(s) >= 1
Drop1(s) == SubSeq(s, 2, Len(s))

\* ---------------------------------------------------------------- Scope

\* type Type
NONE == "NONE"
CLASS == "CLASS"
PREDICATE == "PREDICATE"
PATH == "PATH"
SUBJECT == "SUBJECT"
OBJECT == "OBJECT"

\* the Point Of Focus variable
POF == "?POF"

\* triplePattern{ S, P, O }
triplePattern(s, p, o) == [S |-> s, P |-> p, O |-> o]

\* NewScope / NewScopeWithTemplate: every field zero but Pof
NewScope ==
    [S |-> "", P |-> "", O |-> "", Tps |-> <<>>, scope |-> {},
     Keyword |-> "", pathLength |-> 0, Pof |-> POF]

\* Reset that leaves pathLength as it is
ResetKeepsPathLength(sc) == [sc EXCEPT !.Keyword = "", !.Pof = POF, !.Tps = <<>>]

\* Reset that leaves Tps as it is
ResetKeepsTps(sc) == [sc EXCEPT !.Keyword = "", !.pathLength = 0, !.Pof = POF]

\* func (b *Scope) Reset()
Reset(sc) == [sc EXCEPT !.Keyword = "", !.pathLength = 0, !.Pof = POF, !.Tps = <<>>]

\* func (b *Scope) setKeyword(keyword string)
setKeyword(sc, keyword) == IF Len(keyword) # 0 THEN [sc EXCEPT !.Keyword = keyword] ELSE sc

\* func (b *Scope) setSubject(s string)
setSubject(sc, s) == IF Len(TrimSpace(s)) # 0 THEN [sc EXCEPT !.S = TrimSpace(s)] ELSE sc

\* func (b *Scope) setPredicate(p string)
setPredicate(sc, p) == IF Len(TrimSpace(p)) # 0 THEN [sc EXCEPT !.P = TrimSpace(p)] ELSE sc

\* func (b *Scope) setObject(o string)
setObject(sc, o) == IF Len(TrimSpace(o)) # 0 THEN [sc EXCEPT !.O = TrimSpace(o)] ELSE sc

\* func (b *Scope) addTriplePattern()
addTriplePattern(sc) == [sc EXCEPT !.Tps = Append(@, triplePattern(sc.S, sc.P, sc.O))]

\* func (b *Scope) setPathLength(lenght string)
setPathLength(sc, lenght) == [sc EXCEPT !.pathLength = Atoi(lenght)]

\* in that looks at the object alone
inObjectOnly(tp, scope) == tp.O \in scope

\* func (tp *triplePattern) in(scope map[string]bool) bool
in(tp, scope) == tp.S \in scope \/ tp.P \in scope \/ tp.O \in scope

\* func (tp *triplePattern) addToScope(scope map[string]bool)
addToScope(tp, scope) == scope \cup {tp.S, tp.P, tp.O}

RECURSIVE ScanTps(_, _, _)
\* one pass of the inner loop of trimToScope, from index i on
ScanTps(tps, i, scope) ==
    IF i > Len(tps) THEN scope
    ELSE ScanTps(tps, i + 1, IF in(tps[i], scope) THEN addToScope(tps[i], scope) ELSE scope)

RECURSIVE GrowScope(_, _, _)
\* the outer loop of trimToScope: for size != len(b.scope)
GrowScope(tps, scope, size) ==
    IF size = Cardinality(scope) THEN scope
    ELSE GrowScope(tps, ScanTps(tps, 1, scope), Cardinality(scope))

\* the set trimToScope starts from
ScopeSeed == {POF}

RECURSIVE Scans(_, _, _)
\* the number of times the outer loop of trimToScope scans tps
Scans(tps, scope, size) ==
    IF size = Cardinality(scope) THEN 0
    ELSE 1 + Scans(tps, ScanTps(tps, 1, scope), Cardinality(scope))

\* trimToScope whose second loop keeps the first pattern without looking at it
trimToScopeKeepsFirst(sc) ==
    LET scope == GrowScope(sc.Tps, ScopeSeed, 0)
    IN  [sc EXCEPT !.scope = scope,
                   !.Tps = IF Len(sc.Tps) = 0 THEN <<>>
                           ELSE <<Head(sc.Tps)>> \o SelectSeq(Tail(sc.Tps), LAMBDA tp : in(tp, scope))]

\* trimToScope with a single scan of Tps in place of the loop to the fixed point
trimToScopeOnePass(sc) ==
    LET scope == ScanTps(sc.Tps, 1, ScopeSeed)
    IN  [sc EXCEPT !.scope = scope, !.Tps = SelectSeq(sc.Tps, LAMBDA tp : in(tp, scope))]

\* trimToScope whose second loop starts one pattern late
trimToScopeSkipFirst(sc) ==
    LET scope == GrowScope(sc.Tps, ScopeSeed, 0)
    IN  [sc EXCEPT !.scope = scope,
                   !.Tps = IF Len(sc.Tps) = 0 THEN <<>>
                           ELSE SelectSeq(Tail(sc.Tps), LAMBDA tp : in(tp, scope))]

\* func (b *Scope) trimToScope()
trimToScope(sc) ==
    LET scope == GrowScope(sc.Tps, ScopeSeed, 0)
    IN  [sc EXCEPT !.scope = scope, !.Tps = SelectSeq(sc.Tps, LAMBDA tp : in(tp, scope))]

RECURSIVE pathPofFrom(_, _)
\* the body of pathPof's loop, for i .. pathLength
pathPofFrom(i, pathLength) ==
    IF i > pathLength THEN ""
    ELSE (IF i > 1 THEN ", " ELSE "")
         \o "\"<\", ?POF" \o Itoa(i) \o ", \">\""
         \o (IF i < pathLength THEN ", \" / \"" ELSE "")
         \o pathPofFrom(i + 1, pathLength)

\* func pathPof(pathLength int) string
pathPof(pathLength) == "(concat(" \o pathPofFrom(1, pathLength) \o ") as ?POF)"

\* the index of the first pattern whose predicate is ?POF, 0 when there is none
FocusIndex(tps) ==
    IF \E i \in 1..Len(tps) : tps[i].P = POF
    THEN CHOOSE i \in 1..Len(tps) : tps[i].P = POF /\ \A j \in 1..(i - 1) : tps[j].P # POF
    ELSE 0

\* inter2 of hop i: "?" + tp.S[1:] + tp.O[1:] + strconv.Itoa(i)
InterVar(tp, i) == "?" \o Drop1(tp.S) \o Drop1(tp.O) \o Itoa(i)

\* the intermediate pattern of hop i, 1 <= i < pathLength
tpInter(tp, i) ==
    triplePattern(IF i = 1 THEN tp.S ELSE InterVar(tp, i - 1), POF \o Itoa(i), InterVar(tp, i))

\* addIntermediatePath slices tp.S[1:] and tp.O[1:]: a run-time panic on an empty string
addIntermediatePathPanics(sc) ==
    /\ sc.pathLength > 1
    /\ FocusIndex(sc.Tps) # 0
    /\ \/ Len(sc.Tps[FocusIndex(sc.Tps)].S) = 0
       \/ Len(sc.Tps[FocusIndex(sc.Tps)].O) = 0

\* addIntermediatePath whose loop runs to i <= pathLength
addIntermediatePathExtraHop(sc) ==
    IF sc.pathLength = 0 \/ FocusIndex(sc.Tps) = 0 THEN sc
    ELSE LET ind   == FocusIndex(sc.Tps)
             tp    == sc.Tps[ind]
             n     == sc.pathLength
             hops  == IF n > 0 THEN [i \in 1..n |-> tpInter(tp, i)] ELSE <<>>
             lastS == IF n > 0 THEN InterVar(tp, n) ELSE tp.S
             tps   == sc.Tps \o hops
         IN  [sc EXCEPT !.Tps = [tps EXCEPT ![ind] = triplePattern(lastS, POF \o Itoa(n), tp.O)],
                        !.Pof = pathPof(n)]

\* addIntermediatePath that puts the intermediate hops in front of Tps
addIntermediatePathHopsFirst(sc) ==
    IF sc.pathLength = 0 \/ FocusIndex(sc.Tps) = 0 THEN sc
    ELSE LET ind   == FocusIndex(sc.Tps)
             tp    == sc.Tps[ind]
             n     == sc.pathLength
             hops  == IF n > 1 THEN [i \in 1..(n - 1) |-> tpInter(tp, i)] ELSE <<>>
             lastS == IF n > 1 THEN InterVar(tp, n - 1) ELSE tp.S
         IN  [sc EXCEPT !.Tps = hops \o [sc.Tps EXCEPT ![ind] = triplePattern(lastS, POF \o Itoa(n), tp.O)],
                        !.Pof = pathPof(n)]

\* func (b *Scope) addIntermediatePath(), when it does not panic
addIntermediatePath(sc) ==
    IF sc.pathLength = 0 \/ FocusIndex(sc.Tps) = 0 THEN sc
    ELSE LET ind   == FocusIndex(sc.Tps)
             tp    == sc.Tps[ind]
             n     == sc.pathLength
             hops  == IF n > 1 THEN [i \in 1..(n - 1) |-> tpInter(tp, i)] ELSE <<>>
             lastS == IF n > 1 THEN InterVar(tp, n - 1) ELSE tp.S
             tps   == sc.Tps \o hops
         IN  [sc EXCEPT !.Tps = [tps EXCEPT ![ind] = triplePattern(lastS, POF \o Itoa(n), tp.O)],
                        !.Pof = pathPof(n)]

RECURSIVE FirstTypeObjectFirst(_, _)
\* the loop of RecommendationType with the OBJECT test ahead of the CLASS test
FirstTypeObjectFirst(tps, i) ==
    IF i > Len(tps) THEN NONE
    ELSE IF tps[i].P = POF THEN PREDICATE
    ELSE IF tps[i].O = POF THEN OBJECT
    ELSE IF tps[i].P = "a" /\ tps[i].O = POF THEN CLASS
    ELSE IF tps[i].S = POF THEN SUBJECT
    ELSE FirstTypeObjectFirst(tps, i + 1)

RECURSIVE FirstType(_, _)
\* the loop of RecommendationType, from index i on
FirstType(tps, i) ==
    IF i > Len(tps) THEN NONE
    ELSE IF tps[i].P = POF THEN PREDICATE
    ELSE IF tps[i].P = "a" /\ tps[i].O = POF THEN CLASS
    ELSE IF tps[i].O = POF THEN OBJECT
    ELSE IF tps[i].S = POF THEN SUBJECT
    ELSE FirstType(tps, i + 1)

\* func (b *Scope) RecommendationType() Type
RecommendationType(sc) == IF sc.pathLength # 0 THEN PATH ELSE FirstType(sc.Tps, 1)

RECURSIVE ExecuteRange(_, _)
\* {{range .Tps}} ... {{end}} of the template of NewScope, from index i on
ExecuteRange(tps, i) ==
    IF i > Len(tps) THEN ""
    ELSE "\n            " \o tps[i].S \o " " \o tps[i].P \o " " \o tps[i].O \o " .\n        "
         \o ExecuteRange(tps, i + 1)

\* b.template.Execute(&out, b) with the template of NewScope
Execute(sc) ==
    "\n        SELECT DISTINCT " \o sc.Pof \o "\n        WHERE {\n        "
    \o ExecuteRange(sc.Tps, 1)
    \o "\n        "
    \o (IF Len(sc.Keyword) # 0
        THEN "\n            FILTER regex(?POF, \"" \o sc.Keyword \o "\", \"i\")\n        "
        ELSE "")
    \o "\n        }\n        LIMIT 10\n    "

\* RecommendationQuery panics inside addIntermediatePath
QueryPanics(sc) == addIntermediatePathPanics(trimToScope(sc))

\* func (b *Scope) RecommendationQuery() string: the Scope it leaves
QueryScope(sc) == addIntermediatePath(trimToScope(sc))

\* func (b *Scope) RecommendationQuery() string: the text it returns
RecommendationQuery(sc) == Execute(QueryScope(sc))

\* ---------------------------------------------------------------- the Scope under any sequence of calls

\* the terms the parser hands to setSubject, setPredicate and setObject (token text, blanks included)
SubjectInputs == {"?s ", " "}
PredicateInputs == {"?POF", "a "}
ObjectInputs == {"?POF", " ?o"}

\* the keywords handed to setKeyword
KeywordInputs == {"", "test"}

\* the texts handed to setPathLength: "0" .. MaxPathLength, and one that is no number
LengthInputs == {Itoa(n) : n \in 0..MaxPathLength} \cup {"x"}

\* what a call that panics returns in the model
Panic == "panic"

Init ==
    /\ b = NewScope
    /\ last = "NewScope"
    /\ ret = ""
    /\ panicked = FALSE
    /\ f = NewScope
    /\ fret = ""
    /\ fpanicked = FALSE
    /\ script = <<>>
    /\ pc = 1
    /\ phase = "parsing"
    /\ cycle = 1
    /\ first = <<>>
    /\ bindings = <<>>
    /\ counts = <<>>
    /\ pofs = <<>>
    /\ top = <<>>
    /\ values = ""
    /\ rpc = "bindings"

\* the method name, without result, is called on b and leaves it as nb
Call(name, nb) ==
    /\ ~panicked
    /\ b' = nb
    /\ last' = name
    /\ ret' = ""
    /\ UNCHANGED panicked

\* the same method is called on f, unless a panic has ended its program
Mirror(nf) ==
    /\ f' = IF fpanicked THEN f ELSE nf
    /\ fret' = IF fpanicked THEN Panic ELSE ""
    /\ UNCHANGED fpanicked

SetSubject == \E s \in SubjectInputs : Call("setSubject", setSubject(b, s)) /\ UNCHANGED <<fvars, pvars, kvars>>

SetPredicate == \E p \in PredicateInputs : Call("setPredicate", setPredicate(b, p)) /\ UNCHANGED <<fvars, pvars, kvars>>

SetObject == \E o \in ObjectInputs : Call("setObject", setObject(b, o)) /\ UNCHANGED <<fvars, pvars, kvars>>

AddTriplePattern == Len(b.Tps) < MaxTps /\ Call("addTriplePattern", addTriplePattern(b)) /\ UNCHANGED <<fvars, pvars, kvars>>

SetKeyword == \E k \in KeywordInputs : Call("setKeyword", setKeyword(b, k)) /\ UNCHANGED <<fvars, pvars, kvars>>

SetPathLength == \E l \in LengthInputs : Call("setPathLength", setPathLength(b, l)) /\ UNCHANGED <<fvars, pvars, kvars>>

DoReset == Call("Reset", Reset(b)) /\ UNCHANGED <<fvars, pvars, kvars>>

\* RecommendationType on b
TypeOf ==
    /\ ~panicked
    /\ last' = "RecommendationType"
    /\ ret' = RecommendationType(b)
    /\ UNCHANGED <<b, panicked>>

DoRecommendationType == TypeOf /\ UNCHANGED <<fvars, pvars, kvars>>

\* RecommendationQuery on b; a panic in addIntermediatePath leaves the Scope trimmed
Query ==
    /\ ~panicked
    /\ last' = "RecommendationQuery"
    /\ b' = IF QueryPanics(b) THEN trimToScope(b) ELSE QueryScope(b)
    /\ ret' = IF QueryPanics(b) THEN Panic ELSE RecommendationQuery(b)
    /\ panicked' = QueryPanics(b)

DoRecommendationQuery == Query /\ UNCHANGED <<fvars, pvars, kvars>>

Next ==
    \/ SetSubject
    \/ SetPredicate
    \/ SetObject
    \/ AddTriplePattern
    \/ SetKeyword
    \/ SetPathLength
    \/ DoReset
    \/ DoRecommendationType
    \/ DoRecommendationQuery

Spec == Init /\ [][Next]_vars

\* ---------------------------------------------------------------- a Scope after Reset beside a fresh Scope

BothSetSubject == \E s \in SubjectInputs : Call("setSubject", setSubject(b, s)) /\ Mirror(setSubject(f, s)) /\ UNCHANGED <<pvars, kvars>>

BothSetPredicate == \E p \in PredicateInputs : Call("setPredicate", setPredicate(b, p)) /\ Mirror(setPredicate(f, p)) /\ UNCHANGED <<pvars, kvars>>

BothSetObject == \E o \in ObjectInputs : Call("setObject", setObject(b, o)) /\ Mirror(setObject(f, o)) /\ UNCHANGED <<pvars, kvars>>

BothAddTriplePattern ==
    /\ Len(b.Tps) < MaxTps
    /\ Len(f.Tps) < MaxTps
    /\ Call("addTriplePattern", addTriplePattern(b))
    /\ Mirror(addTriplePattern(f))
    /\ UNCHANGED <<pvars, kvars>>

BothSetKeyword == \E k \in KeywordInputs : Call("setKeyword", setKeyword(b, k)) /\ Mirror(setKeyword(f, k)) /\ UNCHANGED <<pvars, kvars>>

BothSetPathLength == \E l \in LengthInputs : Call("setPathLength", setPathLength(b, l)) /\ Mirror(setPathLength(f, l)) /\ UNCHANGED <<pvars, kvars>>

\* Reset on b; from here on f is a Scope that NewScope has just built
ResetBesideFresh ==
    /\ Call("Reset", Reset(b))
    /\ f' = NewScope
    /\ fret' = ""
    /\ fpanicked' = FALSE
    /\ UNCHANGED <<pvars, kvars>>

BothRecommendationType ==
    /\ TypeOf
    /\ fret' = IF fpanicked THEN Panic ELSE RecommendationType(f)
    /\ UNCHANGED <<f, fpanicked>>
    /\ UNCHANGED <<pvars, kvars>>

BothRecommendationQuery ==
    /\ Query
    /\ f' = IF fpanicked THEN f ELSE IF QueryPanics(f) THEN trimToScope(f) ELSE QueryScope(f)
    /\ fret' = IF fpanicked \/ QueryPanics(f) THEN Panic ELSE RecommendationQuery(f)
    /\ fpanicked' = (fpanicked \/ QueryPanics(f))
    /\ UNCHANGED <<pvars, kvars>>

NextFresh ==
    \/ BothSetSubject
    \/ BothSetPredicate
    \/ BothSetObject
    \/ BothAddTriplePattern
    \/ BothSetKeyword
    \/ BothSetPathLength
    \/ ResetBesideFresh
    \/ BothRecommendationType
    \/ BothRecommendationQuery

SpecFresh == Init /\ [][NextFresh]_vars

\* ---------------------------------------------------------------- the Scope a parse has populated

\* at most this many patterns are in the Tps of a populated Scope
MaxLen == 2

\* the terms of the populated Scopes; ?POF1 is a variable of the query that bears the
\* name of a synthetic path variable
Subjects == {"?POF", "?s"}
Predicates == {"?POF", "a", "?POF1"}
Objects == {"?POF", "?o", "?x"}

Patterns == {triplePattern(s, p, o) : s \in Subjects, p \in Predicates, o \in Objects}

PatternLists == UNION {[1..n -> Patterns] : n \in 0..MaxLen}

RECURSIVE Populate(_, _, _)
\* the Scope after the parser's calls for the patterns tps[i..]
Populate(sc, tps, i) ==
    IF i > Len(tps) THEN sc
    ELSE Populate(addTriplePattern(setObject(setPredicate(setSubject(sc, tps[i].S), tps[i].P), tps[i].O)),
                  tps, i + 1)

InitPopulated ==
    /\ \E tps \in PatternLists, k \in KeywordInputs, l \in LengthInputs :
            b = setPathLength(setKeyword(Populate(NewScope, tps, 1), k), l)
    /\ last = "Parse"
    /\ ret = ""
    /\ panicked = FALSE
    /\ f = NewScope
    /\ fret = ""
    /\ fpanicked = FALSE
    /\ script = <<>>
    /\ pc = 1
    /\ phase = "parsing"
    /\ cycle = 1
    /\ first = <<>>
    /\ bindings = <<>>
    /\ counts = <<>>
    /\ pofs = <<>>
    /\ top = <<>>
    /\ values = ""
    /\ rpc = "bindings"

\* trimToScope on b, by itself
DoTrimToScope == Call("trimToScope", trimToScope(b)) /\ UNCHANGED <<fvars, pvars, kvars>>

NextPopulated ==
    \/ DoTrimToScope
    \/ DoRecommendationType
    \/ DoRecommendationQuery

SpecPopulated == InitPopulated /\ [][NextPopulated]_vars

\* ---------------------------------------------------------------- trimming and classifying pattern lists

\* at most this many patterns are in a list handed to trimToScope by itself
MaxTrimLen == 3

TrimLists == UNION {[1..n -> Patterns] : n \in 0..MaxTrimLen}

InitTrim ==
    /\ \E tps \in TrimLists : b = Populate(NewScope, tps, 1)
    /\ last = "Parse"
    /\ ret = ""
    /\ panicked = FALSE
    /\ f = NewScope
    /\ fret = ""
    /\ fpanicked = FALSE
    /\ script = <<>>
    /\ pc = 1
    /\ phase = "parsing"
    /\ cycle = 1
    /\ first = <<>>
    /\ bindings = <<>>
    /\ counts = <<>>
    /\ pofs = <<>>
    /\ top = <<>>
    /\ values = ""
    /\ rpc = "bindings"

NextTrim ==
    \/ DoTrimToScope
    \/ DoRecommendationType

SpecTrim == InitTrim /\ [][NextTrim]_vars

\* ---------------------------------------------------------------- the pattern lists of the tests on terms and paths

\* at most this many patterns are in the Tps of these Scopes
MaxTermsLen == 2

\* the path lengths of these Scopes are 0 .. MaxHops
MaxHops == 3

\* the terms of TestTerms, with ?POF as a predicate and ?so1, a variable of the query
\* that bears the name addIntermediatePath gives the first variable between ?s and ?o
TermsSubjects == {"?s", "?o"}
TermsPredicates == {"<p1>", "a", "?POF"}
TermsObjects == {"?POF", "?o", "?so1"}

TermsPatterns ==
    {triplePattern(s, p, o) : s \in TermsSubjects, p \in TermsPredicates, o \in TermsObjects}

TermsLists == UNION {[1..n -> TermsPatterns] : n \in 0..MaxTermsLen}

\* the texts handed to setPathLength for these Scopes
HopsInputs == {Itoa(n) : n \in 0..MaxHops}

InitTerms ==
    /\ \E tps \in TermsLists, l \in HopsInputs : b = setPathLength(Populate(NewScope, tps, 1), l)
    /\ last = "Parse"
    /\ ret = ""
    /\ panicked = FALSE
    /\ f = NewScope
    /\ fret = ""
    /\ fpanicked = FALSE
    /\ script = <<>>
    /\ pc = 1
    /\ phase = "parsing"
    /\ cycle = 1
    /\ first = <<>>
    /\ bindings = <<>>
    /\ counts = <<>>
    /\ pofs = <<>>
    /\ top = <<>>
    /\ values = ""
    /\ rpc = "bindings"

NextTerms ==
    \/ DoTrimToScope
    \/ DoRecommendationType
    \/ DoRecommendationQuery

SpecTerms == InitTerms /\ [][NextTerms]_vars

\* ---------------------------------------------------------------- a query parsed, reset and parsed again

\* at most this many triples are in a query under test
MaxTriples == 2

\* the terms of the queries under test
QuerySubjects == {"?POF", "?s"}
QueryPredicates == {"?POF", "a"}
QueryObjects == {"?POF", "?o"}

\* a triple of a query: its terms and how it is joined to the triple before it:
\* "." a new subject, ";" the same subject, "," the same subject and predicate
Triples ==
    {[S |-> s, P |-> p, O |-> o, join |-> j] :
        s \in QuerySubjects, p \in QueryPredicates, o \in QueryObjects, j \in {".", ";", ","}}

\* the triple lists a query can hold: the first triple names its subject, a triple
\* joined by ";" or "," repeats the terms it does not name
WellJoined(ts) ==
    /\ Len(ts) > 0 => ts[1].join = "."
    /\ \A i \in 2..Len(ts) :
          /\ ts[i].join \in {";", ","} => ts[i].S = ts[i - 1].S
          /\ ts[i].join = "," => ts[i].P = ts[i - 1].P

TripleLists == {ts \in UNION {[1..n -> Triples] : n \in 0..MaxTriples} : WellJoined(ts)}

\* the path lengths written before the marker; "" when the query has none
PathInputs == {""} \cup {Itoa(n) : n \in 1..MaxPathLength}

\* a builder call: the method and its argument
BuilderCall(m, a) == [method |-> m, arg |-> a]

\* the parser's calls for one triple: each term it names, then addTriplePattern
TripleCalls(t) ==
    (IF t.join = "." THEN <<BuilderCall("setSubject", t.S)>> ELSE <<>>)
    \o (IF t.join # "," THEN <<BuilderCall("setPredicate", t.P)>> ELSE <<>>)
    \o <<BuilderCall("setObject", t.O), BuilderCall("addTriplePattern", "")>>

RECURSIVE TriplesCalls(_, _)
TriplesCalls(ts, i) == IF i > Len(ts) THEN <<>> ELSE TripleCalls(ts[i]) \o TriplesCalls(ts, i + 1)

\* the parser's calls for a query: its triples, its keyword and its path length when it has them
ParserCalls(ts, keyword, path) ==
    TriplesCalls(ts, 1)
    \o (IF keyword # "" THEN <<BuilderCall("setKeyword", keyword)>> ELSE <<>>)
    \o (IF path # "" THEN <<BuilderCall("setPathLength", path)>> ELSE <<>>)

\* the Scope after the builder call c
Apply(sc, c) ==
    CASE c.method = "setSubject" -> setSubject(sc, c.arg)
      [] c.method = "setPredicate" -> setPredicate(sc, c.arg)
      [] c.method = "setObject" -> setObject(sc, c.arg)
      [] c.method = "addTriplePattern" -> addTriplePattern(sc)
      [] c.method = "setKeyword" -> setKeyword(sc, c.arg)
      [] c.method = "setPathLength" -> setPathLength(sc, c.arg)

InitReplay ==
    /\ b = NewScope
    /\ last = "NewScope"
    /\ ret = ""
    /\ panicked = FALSE
    /\ f = NewScope
    /\ fret = ""
    /\ fpanicked = FALSE
    /\ \E ts \in TripleLists, k \in KeywordInputs, l \in PathInputs : script = ParserCalls(ts, k, l)
    /\ pc = 1
    /\ phase = "parsing"
    /\ cycle = 1
    /\ first = <<>>
    /\ bindings = <<>>
    /\ counts = <<>>
    /\ pofs = <<>>
    /\ top = <<>>
    /\ values = ""
    /\ rpc = "bindings"

\* s.Parse(): the parser makes its next call
ParseCall ==
    /\ phase = "parsing"
    /\ pc <= Len(script)
    /\ Call(script[pc].method, Apply(b, script[pc]))
    /\ pc' = pc + 1
    /\ UNCHANGED <<script, phase, cycle, first, fvars, kvars>>

\* parseWithSparql: RecommendationQuery once the parse is over
ParsedQuery ==
    /\ phase = "parsing"
    /\ pc > Len(script)
    /\ Query
    /\ phase' = "queried"
    /\ first' = IF cycle = 1 THEN <<ret'>> ELSE first
    /\ UNCHANGED <<script, pc, cycle, fvars, kvars>>

\* parseWithSparql: RecommendationType after RecommendationQuery
ParsedType ==
    /\ phase = "queried"
    /\ TypeOf
    /\ phase' = "typed"
    /\ first' = IF cycle = 1 THEN Append(first, ret') ELSE first
    /\ UNCHANGED <<script, pc, cycle, fvars, kvars>>

\* Reset(s) between the two parses of the query
ResetForReplay ==
    /\ phase = "typed"
    /\ cycle = 1
    /\ Call("Reset", Reset(b))
    /\ pc' = 1
    /\ phase' = "parsing"
    /\ cycle' = 2
    /\ UNCHANGED <<script, first, fvars, kvars>>

NextReplay ==
    \/ ParseCall
    \/ ParsedQuery
    \/ ParsedType
    \/ ResetForReplay

SpecReplay == InitReplay /\ [][NextReplay]_vars

\* ---------------------------------------------------------------- the popularity ranker

\* at most this many candidates come back from the endpoint
MaxCandidates == 11

\* maps of at most this many candidates are ranged over in every order
MaxShuffled == 3

\* the number of candidates getRecommendations keeps
TopK == 10

\* the i-th candidate
Item(i) == "p" \o Itoa(i)

\* how the counts of the candidates run in the rows under test
Profiles == {"ascending", "descending", "equal"}

\* the count of the i-th of n candidates
ProfileCount(profile, i, n) ==
    CASE profile = "ascending" -> i
      [] profile = "descending" -> n + 1 - i
      [] profile = "equal" -> 1

\* GetBindings(body): a row for each of n candidates, and when again is set a second
\* row for the first of them
Rows(n, profile, again) ==
    [i \in 1..n |-> [POF |-> Item(i), count |-> Itoa(ProfileCount(profile, i, n))]]
    \o (IF again /\ n > 0 THEN <<[POF |-> Item(1), count |-> "1"]>> ELSE <<>>)

\* counts[v["POF"]["value"]] += count, for the rows from the i-th on
RECURSIVE Tally(_, _, _)
Tally(rows, i, m) ==
    IF i > Len(rows) THEN m
    ELSE LET k == rows[i].POF
             count == Atoi(rows[i].count)
         IN  Tally(rows, i + 1,
                   [x \in DOMAIN m \cup {k} |->
                       IF x = k THEN (IF k \in DOMAIN m THEN m[k] ELSE 0) + count ELSE m[x]])

\* the keys of the rows from the i-th on, each once, in the order they come
RECURSIVE Arrival(_, _, _)
Arrival(rows, i, seen) ==
    IF i > Len(rows) THEN <<>>
    ELSE IF rows[i].POF \in seen THEN Arrival(rows, i + 1, seen)
    ELSE <<rows[i].POF>> \o Arrival(rows, i + 1, seen \cup {rows[i].POF})

\* the sequence s started at its r-th element and wrapped around
Rotate(s, r) == [i \in 1..Len(s) |-> s[((i + r - 2) % Len(s)) + 1]]

\* the orders a range over the map m takes: the language leaves the order open and the
\* runtime starts a range at a place it draws. A small map is ranged over in every
\* order, a larger one in every rotation of the order its keys came in.
RangeOrders(m, rows) ==
    LET keys == DOMAIN m
        n == Cardinality(keys)
    IN  IF n <= MaxShuffled
        THEN {s \in [1..n -> keys] : \A i, j \in 1..n : s[i] = s[j] => i = j}
        ELSE {Rotate(Arrival(rows, 1, {}), r) : r \in 1..n}

\* type Recommendation
Recommendation(item, count) == [item |-> item, count |-> count]

\* values += "<" + r.item + "> ", for the recommendations from the i-th on
RECURSIVE ValuesFrom(_, _)
ValuesFrom(recs, i) ==
    IF i > Len(recs) THEN "" ELSE "<" \o recs[i].item \o "> " \o ValuesFrom(recs, i + 1)

\* the smaller of two numbers
Min(x, y) == IF x < y THEN x ELSE y

InitRank ==
    /\ b = NewScope
    /\ last = "NewScope"
    /\ ret = ""
    /\ panicked = FALSE
    /\ f = NewScope
    /\ fret = ""
    /\ fpanicked = FALSE
    /\ script = <<>>
    /\ pc = 1
    /\ phase = "parsing"
    /\ cycle = 1
    /\ first = <<>>
    /\ \E n \in 0..MaxCandidates, profile \in Profiles, again \in BOOLEAN :
          bindings = Rows(n, profile, again)
    /\ counts = <<>>
    /\ pofs = <<>>
    /\ top = <<>>
    /\ values = ""
    /\ rpc = "bindings"

\* getRecommendations: the counts of the rows are summed for each candidate
SumCounts ==
    /\ rpc = "bindings"
    /\ counts' = Tally(bindings, 1, <<>>)
    /\ rpc' = "counted"
    /\ UNCHANGED <<bindings, pofs, top, values, bvars, fvars, pvars>>

\* getRecommendations: pofs is filled by a range over counts
RangeCounts ==
    /\ rpc = "counted"
    /\ \E order \in RangeOrders(counts, bindings) :
          pofs' = [i \in 1..Len(order) |-> Recommendation(order[i], counts[order[i]])]
    /\ rpc' = "ranged"
    /\ UNCHANGED <<bindings, counts, top, values, bvars, fvars, pvars>>

\* getRecommendations: sort.Reverse(pofs) makes a value that is dropped and leaves
\* pofs as it is; top is the first min elements of pofs and values lists them
TakeTop ==
    /\ rpc = "ranged"
    /\ LET min == Min(TopK, Len(pofs))
       IN  /\ top' = SubSeq(pofs, 1, min)
           /\ values' = "values ?POF { " \o ValuesFrom(SubSeq(pofs, 1, min), 1) \o "}"
    /\ rpc' = "done"
    /\ UNCHANGED <<bindings, counts, pofs, bvars, fvars, pvars>>

NextRank ==
    \/ SumCounts
    \/ RangeCounts
    \/ TakeTop

SpecRank == InitRank /\ [][NextRank]_vars

\* ---------------------------------------------------------------- claims on trimming

Range(s) == {s[i] : i \in 1..Len(s)}

TermsOf(tp) == {tp.S, tp.P, tp.O}

\* X holds the three terms of every pattern of tps that has one term in X
ClosedUnder(X, tps) == \A tp \in Range(tps) : TermsOf(tp) \cap X # {} => TermsOf(tp) \subseteq X

\* the least set that holds ?POF and is closed under tps: what every such set holds
Reachable(tps) ==
    LET T == {POF} \cup UNION {TermsOf(tp) : tp \in Range(tps)}
    IN  {t \in T : \A X \in SUBSET T : (POF \in X /\ ClosedUnder(X, tps)) => t \in X}

\* the patterns of tps with a term reachable from ?POF, in their order
KeptOf(tps) == SelectSeq(tps, LAMBDA tp : TermsOf(tp) \cap Reachable(tps) # {})

\* C1: a call of trimToScope leaves in Tps exactly the patterns that have a subject,
\* predicate or object in the least fixed point grown from {"?POF"}, duplicates
\* included, in their original relative order; every other pattern is discarded.
C1_TrimKeepsReachable == [][last' = "trimToScope" => b'.Tps = KeptOf(b.Tps)]_vars

\* C1 witness: trimToScope has run on three patterns that only the third scan of the
\* list connects to ?POF: the first holds no term of the third, which alone holds ?POF.
C1_Witness ==
    /\ last = "trimToScope"
    /\ Len(b.Tps) = 3
    /\ POF \notin TermsOf(b.Tps[1]) \cup TermsOf(b.Tps[2])
    /\ TermsOf(b.Tps[1]) \cap TermsOf(b.Tps[3]) = {}

\* C2: trimToScope is idempotent: on a Scope that trimToScope has just left, a second
\* trimToScope leaves the same pattern list.
C2_TrimIdempotent == last = "trimToScope" => trimToScope(b).Tps = b.Tps

\* C2 witness: the first trimToScope has discarded the last pattern parsed and kept two.
C2_Witness ==
    /\ last = "trimToScope"
    /\ Len(b.Tps) = 2
    /\ triplePattern(b.S, b.P, b.O) \notin Range(b.Tps)

\* ---------------------------------------------------------------- claims on the recommendation type

Types == {NONE, CLASS, PREDICATE, PATH, SUBJECT, OBJECT}

\* one of the four rules matches the pattern
Matches(tp) == tp.P = POF \/ tp.O = POF \/ tp.S = POF

\* the outcome of the rules on a pattern that matches, in the order they are tried
OutcomeOf(tp) ==
    CASE tp.P = POF -> PREDICATE
      [] tp.P # POF /\ tp.P = "a" /\ tp.O = POF -> CLASS
      [] tp.P # POF /\ tp.P # "a" /\ tp.O = POF -> OBJECT
      [] tp.P # POF /\ tp.O # POF /\ tp.S = POF -> SUBJECT

\* the type the claim gives a Scope with path length n and patterns tps
ExpectedType(n, tps) ==
    IF n # 0 THEN PATH
    ELSE IF \A i \in 1..Len(tps) : ~Matches(tps[i]) THEN NONE
    ELSE OutcomeOf(tps[CHOOSE i \in 1..Len(tps) :
                          Matches(tps[i]) /\ \A j \in 1..(i - 1) : ~Matches(tps[j])])

\* the orderings of the list tps
Orderings(tps) ==
    {[i \in 1..Len(tps) |-> tps[pi[i]]] : pi \in {q \in [1..Len(tps) -> 1..Len(tps)] :
                                                   \A i, j \in 1..Len(tps) : q[i] = q[j] => i = j}}

\* C3: RecommendationType always returns a Type: PATH when pathLength != 0, else the
\* outcome of the first pattern in list order that matches a rule (predicate = ?POF:
\* PREDICATE; predicate = a and object = ?POF: CLASS; object = ?POF: OBJECT; subject =
\* ?POF: SUBJECT), NONE when no pattern matches; and with exactly one matching pattern
\* every ordering of the list gets the same type.
C3_TypePrecedence ==
    last = "RecommendationType" =>
        /\ ret \in Types
        /\ ret = ExpectedType(b.pathLength, b.Tps)
        /\ Cardinality({i \in 1..Len(b.Tps) : Matches(b.Tps[i])}) = 1 =>
               \A tps \in Orderings(b.Tps) : RecommendationType([b EXCEPT !.Tps = tps]) = ret

\* C3 witness: RecommendationType has returned CLASS for a list whose only matching
\* pattern, (?s, a, ?POF), is the second of two.
C3_Witness ==
    /\ last = "RecommendationType"
    /\ ret = CLASS
    /\ b.pathLength = 0
    /\ Len(b.Tps) = 2
    /\ ~Matches(b.Tps[1])
    /\ b.Tps[2] = triplePattern("?s", "a", POF)

\* ---------------------------------------------------------------- claims on RecommendationQuery

\* C4: two calls of RecommendationQuery in a row, on a Scope a parse has populated with
\* pathLength = 0 or pathLength > 0, return the same text, and Tps and Pof are after
\* the second call what they were after the first.
C4_QueryRepeatable ==
    [][(last = "RecommendationQuery" /\ last' = "RecommendationQuery")
          => (ret' = ret /\ b'.Tps = b.Tps /\ b'.Pof = b.Pof)]_vars

\* the synthetic predicate variables ?POF1 .. ?POFn
PathPredicates(n) == {POF \o Itoa(i) : i \in 1..n}

\* the number of patterns of tps whose predicate is p
CountPredicate(tps, p) == Cardinality({i \in 1..Len(tps) : tps[i].P = p})

RECURSIVE Join(_, _)
\* the texts of the list items with sep between consecutive ones
Join(items, sep) ==
    IF Len(items) = 0 THEN ""
    ELSE IF Len(items) = 1 THEN items[1]
    ELSE items[1] \o sep \o Join(Tail(items), sep)

\* the arguments of concat for n hops: "<", ?POFi, ">" per hop and " / " between hops
ConcatArgs(n) ==
    [k \in 1..(4 * n - 1) |->
        CASE k % 4 = 1 -> "\"<\""
          [] k % 4 = 2 -> POF \o Itoa((k + 2) \div 4)
          [] k % 4 = 3 -> "\">\""
          [] k % 4 = 0 -> "\" / \""]

\* the projection the claim gives a path of n hops
ExpectedPof(n) == "(concat(" \o Join(ConcatArgs(n), ", ") \o ") as ?POF)"

\* what C7 says of the Scope sc that RecommendationQuery leaves for a path of n hops
PathExpanded(n, sc) ==
    /\ \A p \in PathPredicates(n) : CountPredicate(sc.Tps, p) = 1
    /\ CountPredicate(sc.Tps, POF) = 0
    /\ sc.Pof = ExpectedPof(n)

\* C7 as claimed: with pathLength = N >= 1 and a pattern whose predicate is ?POF,
\* RecommendationQuery leaves each of ?POF1..?POFN the predicate of exactly one pattern,
\* no pattern with predicate ?POF, and Pof the concat projection of the N hops.
C7_PathHopsAsClaimed ==
    [][(last' = "RecommendationQuery" /\ ~panicked' /\ b.pathLength >= 1
        /\ CountPredicate(b.Tps, POF) >= 1)
          => PathExpanded(b.pathLength, b')]_vars

\* C7 amended: the same, for a Scope with exactly one pattern whose predicate is ?POF
\* and no pattern whose predicate is already one of ?POF1..?POFN.
C7_PathHops ==
    [][(last' = "RecommendationQuery" /\ ~panicked' /\ b.pathLength >= 1
        /\ CountPredicate(b.Tps, POF) = 1
        /\ \A p \in PathPredicates(b.pathLength) : CountPredicate(b.Tps, p) = 0)
          => PathExpanded(b.pathLength, b')]_vars

\* C7 witness: RecommendationQuery has expanded a path of MaxPathLength hops beside
\* one more pattern that trimming kept.
C7_Witness ==
    /\ last = "RecommendationQuery"
    /\ b.pathLength = MaxPathLength
    /\ b.Pof = ExpectedPof(MaxPathLength)
    /\ Len(b.Tps) = MaxPathLength + 1
    /\ \A p \in PathPredicates(MaxPathLength) : CountPredicate(b.Tps, p) = 1

\* C8 as claimed: in every reachable state pathLength > 0 exactly when Pof is not "?POF".
C8_PofIffPathLength == (b.pathLength > 0) <=> (b.Pof # POF)

\* C8 amended: Pof and pathLength change together only at two places. Pof leaves its
\* value only in a RecommendationQuery with pathLength != 0, which sets it to the
\* projection of pathLength hops and leaves pathLength, or in a Reset; Reset leaves
\* Pof = "?POF" and pathLength = 0; setPathLength changes pathLength alone.
C8_PofFollowsPathLength ==
    [][/\ b'.Pof # b.Pof =>
            \/ /\ last' = "RecommendationQuery"
               /\ b.pathLength # 0
               /\ b'.pathLength = b.pathLength
               /\ b'.Pof = ExpectedPof(b.pathLength)
            \/ last' = "Reset"
       /\ last' = "Reset" => (b'.Pof = POF /\ b'.pathLength = 0)
       /\ last' = "setPathLength" => b'.Pof = b.Pof]_vars

\* C8 witness: setPathLength("0") has run on a Scope whose path RecommendationQuery had
\* expanded: pathLength is 0 beside the projection of MaxPathLength hops.
C8_Witness ==
    /\ last = "setPathLength"
    /\ b.pathLength = 0
    /\ b.Pof = ExpectedPof(MaxPathLength)

\* the variables a path expansion has put into sc: ?POF1..?POFN and the intermediate
\* variables, the objects of the hops before the last
PathVariables(sc) ==
    IF sc.Pof = POF THEN {}
    ELSE PathPredicates(sc.pathLength)
         \cup {tp.O : tp \in {q \in Range(sc.Tps) : q.P \in PathPredicates(sc.pathLength - 1)}}

\* the patterns of sc that hold ?POF or a variable of the expanded path
FocusPatterns(sc) == {tp \in Range(sc.Tps) : TermsOf(tp) \cap ({POF} \cup PathVariables(sc)) # {}}

\* C9: whenever trimToScope runs, by itself or as the first step of RecommendationQuery,
\* before path expansion or after it, every pattern that holds ?POF or a synthetic path
\* variable is still in Tps afterwards.
C9_TrimKeepsFocus ==
    [][/\ last' = "trimToScope" => FocusPatterns(b) \subseteq Range(b'.Tps)
       /\ last' = "RecommendationQuery" => FocusPatterns(b) \subseteq Range(trimToScope(b).Tps)]_vars

\* ---------------------------------------------------------------- claims on Reset

\* C5: a query parsed on a new Scope, rendered and classified, then Reset and parsed
\* again: the second RecommendationQuery returns the text of the first, and the second
\* RecommendationType the type of the first, with and without keyword and path length.
C5_ReplayAfterReset ==
    /\ (cycle = 2 /\ phase = "queried") => ret = first[1]
    /\ (cycle = 2 /\ phase = "typed") => ret = first[2]

\* C5 witness: the second cycle of a query with two triples, a keyword and a path of
\* MaxPathLength hops has returned its type.
C5_Witness ==
    /\ cycle = 2
    /\ phase = "typed"
    /\ ret = PATH
    /\ b.pathLength = MaxPathLength
    /\ b.Pof # POF
    /\ b.Keyword = "test"
    /\ Len(b.Tps) > MaxPathLength

\* C6: a Scope after Reset is a new Scope: after the same builder calls on both, the
\* patterns, the keyword, the path length, the projection, the recommendation type and
\* the rendered text of the Scope that was reset are those of the new one.
C6_ResetIsFresh ==
    /\ b.Tps = f.Tps
    /\ b.Keyword = f.Keyword
    /\ b.pathLength = f.pathLength
    /\ b.Pof = f.Pof
    /\ RecommendationType(b) = RecommendationType(f)
    /\ ret = fret

\* ---------------------------------------------------------------- claims on the popularity ranker

\* the candidate k is listed in the VALUES block
Bound(k) ==
    LET x == "<" \o k \o "> "
    IN  \E i \in 1..(Len(values) - Len(x) + 1) : SubSeq(values, i, i + Len(x) - 1) = x

\* C10: of N candidates with their summed counts, min(10, N) are listed in the VALUES
\* block of the second query, and no candidate left out of it has a larger count than
\* one that is listed.
C10_TopByCount ==
    rpc = "done" =>
        /\ Cardinality({k \in DOMAIN counts : Bound(k)}) = Min(TopK, Cardinality(DOMAIN counts))
        /\ \A k, l \in DOMAIN counts : (Bound(k) /\ ~Bound(l)) => counts[l] <= counts[k]

\* ---------------------------------------------------------------- claims on the tests on terms

\* the pattern list of the input "?s <p1> < ; a ?o ."
TermsScenario == <<triplePattern("?s", "<p1>", "?POF"), triplePattern("?s", "a", "?o")>>

\* C11 as claimed: on the patterns (?s, <p1>, ?POF), (?s, a, ?o), with ?o in no other
\* pattern, trimToScope leaves (?s, <p1>, ?POF) alone and the type is PREDICATE.
C11_TermsTrimmedAsClaimed ==
    [][(last' = "trimToScope" /\ b.Tps = TermsScenario /\ b.pathLength = 0)
          => (b'.Tps = <<TermsScenario[1]>> /\ RecommendationType(b') = PREDICATE)]_vars

\* C11 amended: on the patterns (?s, <p1>, ?POF), (?s, a, ?o), trimToScope keeps both
\* patterns, the second through the subject ?s it shares with the first, and the type,
\* before the trim and after it, is OBJECT.
C11_TermsKept ==
    [][/\ (last' = "trimToScope" /\ b.Tps = TermsScenario /\ b.pathLength = 0)
            => (b'.Tps = TermsScenario /\ RecommendationType(b') = OBJECT)
       /\ (last' = "RecommendationType" /\ b.Tps = TermsScenario /\ b.pathLength = 0)
            => ret' = OBJECT]_vars

\* C11 witness: trimToScope has run on the two patterns, parsed in this order, and
\* RecommendationType has then returned OBJECT.
C11_Witness ==
    /\ last = "RecommendationType"
    /\ ret = OBJECT
    /\ b.Tps = TermsScenario
    /\ b.scope = {POF, "?s", "<p1>", "a", "?o"}
    /\ b.pathLength = 0

\* ---------------------------------------------------------------- claims on addIntermediatePath

\* what C12 says of the patterns after that addIntermediatePath makes of the patterns
\* before, for a path of n >= 1 hops and the focus pattern at index k of before
OnlyFocusChanged(before, after, n, k) ==
    LET m == Len(before)
    IN  /\ Len(after) = m + n - 1
        /\ after[k].P = POF \o Itoa(n)
        /\ after[k].O = before[k].O
        /\ after[k].S = IF n = 1 THEN before[k].S ELSE after[m + n - 1].O
        /\ \A i \in 1..(n - 1) : after[m + i].P = POF \o Itoa(i)
        /\ n >= 2 => after[m + 1].S = before[k].S
        /\ \A i \in 1..(n - 2) : after[m + i].O = after[m + i + 1].S
        /\ \A j \in (1..m) \ {k} : after[j] = before[j]

\* C12: addIntermediatePath, run by RecommendationQuery on the trimmed Scope, leaves the
\* Scope as it is when pathLength = 0; with pathLength = N >= 1 the first pattern whose
\* predicate is ?POF stays at its index and becomes the last hop (its subject the last
\* intermediate variable, its predicate ?POFN, its object unchanged), the N-1
\* intermediate hops are appended in hop order as a chain from the original subject,
\* and every other pattern keeps its content and its position.
C12_OnlyFocusChanged ==
    [][(last' = "RecommendationQuery" /\ ~panicked') =>
          LET trimmed == trimToScope(b)
              k == FocusIndex(trimmed.Tps)
          IN  /\ b.pathLength = 0 => b' = trimmed
              /\ (b.pathLength >= 1 /\ k # 0)
                    => OnlyFocusChanged(trimmed.Tps, b'.Tps, b.pathLength, k)]_vars

\* C12 witness: RecommendationQuery has expanded a path of MaxHops hops on two patterns,
\* the second of them the focus pattern: it is still the second, the first is as it was
\* parsed, and the hops follow.
C12_Witness ==
    /\ last = "RecommendationQuery"
    /\ b.pathLength = MaxHops
    /\ Len(b.Tps) = MaxHops + 1
    /\ b.Tps[1].P = "a"
    /\ b.Tps[2].P = POF \o Itoa(MaxHops)
    /\ b.Tps[3].P = POF \o "1"

\* ---------------------------------------------------------------- claims on the order of the patterns

\* the patterns of the list s, each with the number of times it is in s
BagOfSeq(s) == [x \in Range(s) |-> Cardinality({i \in 1..Len(s) : s[i] = x})]

\* C13: what trimToScope keeps does not depend on the order of Tps: for every ordering
\* of the list it was called on it keeps the same patterns the same number of times,
\* in the order of that ordering, and its loop ends, after at most one scan for each
\* pattern and one more.
C13_TrimOrderFree ==
    [][last' = "trimToScope" =>
          \A p \in Orderings(b.Tps) :
             LET kept == trimToScope([b EXCEPT !.Tps = p]).Tps
             IN  /\ BagOfSeq(kept) = BagOfSeq(b'.Tps)
                 /\ kept = SelectSeq(p, LAMBDA tp : tp \in Range(b'.Tps))
                 /\ Scans(p, ScopeSeed, 0) <= Len(p) + 1]_vars

\* C13 witness: trimToScope has kept three patterns, the first of them without ?POF and
\* joined to the others only on a later scan; the list in reverse takes fewer scans.
C13_Witness ==
    /\ last = "trimToScope"
    /\ Len(b.Tps) = 3
    /\ POF \notin TermsOf(b.Tps[1])
    /\ Scans(b.Tps, ScopeSeed, 0) > Scans(<<b.Tps[3], b.Tps[2], b.Tps[1]>>, ScopeSeed, 0)

\* the terms of the patterns of tps
TermsOfAll(tps) == UNION {TermsOf(tp) : tp \in Range(tps)}

\* C14: the intermediate variables of addIntermediatePath are new: for a trimmed Scope
\* and pathLength = N >= 2, no variable "?" + subject name + object name + hop index
\* that the expansion introduces is a term of a pattern the Scope already held.
C14_InterVarsFresh ==
    [][(last' = "RecommendationQuery" /\ ~panicked' /\ b.pathLength >= 2) =>
          LET trimmed == trimToScope(b)
              k == FocusIndex(trimmed.Tps)
          IN  k # 0 => \A i \in 1..(b.pathLength - 1) :
                          InterVar(trimmed.Tps[k], i) \notin TermsOfAll(trimmed.Tps)]_vars

====
